---- MODULE Spec2Model ----
(***************************************************************************)
(* State-machine model of the losb backend views (app/losb/api/v1/views.py) *)
(* together with the services they call: phone verification by SMS OTP,     *)
(* the write-once birthday, the profile updates, the Telegram webhook that  *)
(* upserts the MessageLog and the last-message lookup that reads it.        *)
(* Every HTTP request is carried by a worker: the request                   *)
(* arrives (Start...), the handler body runs (...Step), and the response    *)
(* is handed back (Return).  Handlers of different workers interleave.      *)
(***************************************************************************)
EXTENDS Integers, Sequences, FiniteSets, TLC

\* ---------------------------------------------------------------- bounds
NumUsers == 2          \* users 1..NumUsers; telegram_id is the user's index
NumWorkers == 2        \* requests that can be in flight at once
MaxCode == 2           \* submitted phone codes 0..MaxCode
MaxNumber == 2         \* submitted phone numbers 0..MaxNumber
MaxDraw == 2           \* outcomes of the random source used by the model
MaxTime == 2           \* the clock runs 0..MaxTime
MaxBirthday == 2       \* submitted birthdays 0..MaxBirthday
NumChats == 2          \* chat identifiers 1..NumChats
MaxDate == 2           \* webhook dates are DateStep * (0..MaxDate)
DateStep == 45296      \* 12h 34m 56s, so dates differ in hour, minute, day
MaxDigits == 3         \* configured OTP lengths 1..MaxDigits

\* ------------------------------------------------------ program constants
\* settings.SMS_VERIFICATION_CODE_DIGITS: the configured OTP length; the
\* workflow is modelled with the shortest code.
SMS_VERIFICATION_CODE_DIGITS == 1
\* The validity window of a pending verification, in clock ticks.
VERIFICATION_TTL == 2
OtpAlphabet == <<"1", "2", "3", "4", "5", "6", "7", "8", "9">>

Users == 1..NumUsers
Workers == 1..NumWorkers
Chats == 1..NumChats

None == << >>
Some(v) == <<v>>

\* A JSON object is a function from its keys.
EmptyDict == [k \in {} |-> 0]

VARIABLES
  phone,         \* phone[u]: None or Some([code, number]), User.phone
  birthday,      \* birthday[u]: None or Some(date), User.birthday
  profile,       \* profile[u]: name, city and avatar_url of the user, each None or Some(value)
  pendingStore,  \* set of pending verifications [user, otp, code, number, issued]
  now,           \* the clock the verification TTL is measured against
  messageLog,    \* set of MessageLog rows [chat_id, text, sent_at]
  pc,            \* pc[w]: where worker w is in its handler
  req,           \* req[w]: the request worker w is serving
  resp,          \* resp[w]: the response worker w produced
  issued,        \* history: issued[u], the OTPs delivered to u, newest last (at most 2)
  consumed,      \* history: consumed[u], the OTP of u's successful verification since u's last delivered request
  lastEvent,     \* history: lastEvent[c], the message event most recently upserted for chat c
  overwrote,     \* history: overwrote[c], the last event for c replaced a row with other text and another timestamp
  firstBirthday, \* history: firstBirthday[u], the first birthday stored for u
  gateway        \* history: gateway[w], what the SMS gateway was handed for w's request and what it did

vars == <<phone, birthday, profile, pendingStore, now, messageLog, pc, req, resp,
          issued, consumed, lastEvent, overwrote,
          firstBirthday, gateway>>

userVars == <<phone, birthday, profile, firstBirthday>>
verifVars == <<pendingStore, issued, consumed, gateway>>
logVars == <<messageLog, lastEvent, overwrote>>

\* ------------------------------------------------------------- responses
NoReq == [op |-> "none"]
NoResp == [status |-> 0, error |-> "", detail |-> None, data |-> None]
Ok(data) == [status |-> 200, error |-> "", detail |-> None, data |-> data]
Raise(error, detail) == [status |-> 400, error |-> error, detail |-> detail, data |-> None]
ServerError(error) == [status |-> 500, error |-> error, detail |-> None, data |-> None]

UserSerializer(u, ph, bd) == [telegram_id |-> u, phone |-> ph, birthday |-> bd]

Init ==
  /\ phone = [u \in Users |-> None]
  /\ birthday = [u \in Users |-> None]
  /\ profile = [u \in Users |-> [name |-> None, city |-> None, avatar_url |-> None]]
  /\ pendingStore = {}
  /\ now = 0
  /\ messageLog = {}
  /\ pc = [w \in Workers |-> "idle"]
  /\ req = [w \in Workers |-> NoReq]
  /\ resp = [w \in Workers |-> NoResp]
  /\ issued = [u \in Users |-> << >>]
  /\ consumed = [u \in Users |-> None]
  /\ lastEvent = [c \in Chats |-> None]
  /\ overwrote = [c \in Chats |-> FALSE]
  /\ firstBirthday = [u \in Users |-> None]
  /\ gateway = [w \in Workers |-> None]

\* ------------------------------------------------------- OTP generator
get_otp_WithZero(digits, rnd) ==
  [i \in 1..digits |->
     <<"0", "1", "2", "3", "4", "5", "6", "7", "8", "9">>[rnd[i]]]

\* rnd[i] is the index SystemRandom().choice picks for the i-th character.
get_otp(digits, rnd) == [i \in 1..digits |-> OtpAlphabet[rnd[i]]]

RandomDraws == [1..SMS_VERIFICATION_CODE_DIGITS -> 1..MaxDraw]
OtpSpace == {get_otp(SMS_VERIFICATION_CODE_DIGITS, rnd) : rnd \in RandomDraws}
SmsCauses == {"network", "rejected"}

\* All outcomes of the random source for a code of the given length.
AllDraws(digits) == [1..digits -> 1..Len(OtpAlphabet)]

\* --------------------------------------------- phone verification service
PendingOf(store, u) == {r \in store : r.user = u}
Expired(r, t) == t - r.issued >= VERIFICATION_TTL
LivePending(store, u, t) == {r \in PendingOf(store, u) : ~Expired(r, t)}

request_verification_NoSupersede(store, u, code, number, otp, sms, t) ==
  IF sms = "sent"
  THEN [error |-> "", cause |-> "", otp |-> otp,
        store |-> store \cup {[user |-> u, otp |-> otp, code |-> code,
                               number |-> number, issued |-> t]}]
  ELSE [error |-> "SmsDeliveryError", cause |-> sms, otp |-> otp, store |-> store]

\* sms is "sent" or the cause of the delivery failure.  The pending
\* verification is committed only after the SMS went out, and replaces
\* whatever the user had pending.
request_verification(store, u, code, number, otp, sms, t) ==
  IF sms = "sent"
  THEN [error |-> "", cause |-> "", otp |-> otp,
        store |-> (store \ PendingOf(store, u)) \cup
                  {[user |-> u, otp |-> otp, code |-> code,
                    number |-> number, issued |-> t]}]
  ELSE [error |-> "SmsDeliveryError", cause |-> sms, otp |-> otp, store |-> store]

verify_code_NoConsume(store, u, otp, code, number, t) ==
  IF LivePending(store, u, t) = {}
  THEN [error |-> "NoPendingVerification", phone |-> None, store |-> store]
  ELSE IF \E r \in LivePending(store, u, t) :
             r.otp = otp /\ r.code = code /\ r.number = number
       THEN [error |-> "", phone |-> Some([code |-> code, number |-> number]),
             store |-> store]
       ELSE [error |-> "CodeMismatch", phone |-> None, store |-> store]

\* Looks up the user's pending verification, compares OTP and phone, and on
\* a match consumes the pending verification and yields the phone to persist.
\* A pending verification past its validity window counts as none.
verify_code(store, u, otp, code, number, t) ==
  IF LivePending(store, u, t) = {}
  THEN [error |-> "NoPendingVerification", phone |-> None, store |-> store]
  ELSE IF \E r \in LivePending(store, u, t) :
             r.otp = otp /\ r.code = code /\ r.number = number
       THEN [error |-> "", phone |-> Some([code |-> code, number |-> number]),
             store |-> store \ PendingOf(store, u)]
       ELSE [error |-> "CodeMismatch", phone |-> None, store |-> store]

\* ------------------------------------------------ UserPhoneUpdateView
\* UserPhoneSerializer / UserPhoneVerificationSerializer: code and number
\* are positive integers.
UserPhoneSerializerValid(data) == data.code >= 1 /\ data.number >= 1
UserPhoneVerificationSerializerValid(data) ==
  data.otp \in OtpSpace /\ UserPhoneSerializerValid(data.phone)

PostServiceArgs(data) == [code |-> data.code, number |-> data.number]

PostResult_Swallow(out) == Ok([otp |-> out.otp])

PostResult(out) ==
  IF out.error = "SmsDeliveryError"
  THEN Raise("SmsDeliveryError", Some(<<"Failed to send SMS: ", out.cause>>))
  ELSE Ok([otp |-> out.otp])

PatchServiceArgs_Swapped(data) ==
  [otp |-> data.otp, code |-> data.phone.number, number |-> data.phone.code]

PatchServiceArgs_CodeAsNumber(data) ==
  [otp |-> data.otp, code |-> data.phone.code, number |-> data.phone.code]

PatchServiceArgs(data) ==
  [otp |-> data.otp, code |-> data.phone.code, number |-> data.phone.number]

PatchResult_Swallow(out, userdata) == Ok(userdata)

PatchResult(out, userdata) ==
  IF out.error # "" THEN Raise(out.error, None) ELSE Ok(userdata)

PhoneInputs == [code : 0..MaxCode, number : 0..MaxNumber]
VerificationInputs == [otp : OtpSpace, phone : PhoneInputs]
SmsOutcomes == {"sent"} \cup SmsCauses

\* POST arrives: user u asks for a verification code for a phone.
StartPost(w, u, data) ==
  /\ pc[w] = "idle"
  /\ req' = [req EXCEPT ![w] = [op |-> "post", user |-> u, data |-> data]]
  /\ pc' = [pc EXCEPT ![w] = "post"]
  /\ UNCHANGED <<userVars, verifVars, logVars, now, resp>>

\* UserPhoneUpdateView.post; rnd is what the random source yields and sms
\* what the delivery gateway does.
PostStep(w, rnd, sms) ==
  /\ pc[w] = "post"
  /\ pc' = [pc EXCEPT ![w] = "done"]
  /\ LET u == req[w].user
         data == req[w].data
     IN IF ~UserPhoneSerializerValid(data)
        THEN /\ resp' = [resp EXCEPT ![w] = Raise("ValidationError", None)]
             /\ UNCHANGED verifVars
        ELSE LET a == PostServiceArgs(data)
                 out == request_verification(pendingStore, u, a.code, a.number,
                                             get_otp(SMS_VERIFICATION_CODE_DIGITS, rnd),
                                             sms, now)
             IN /\ pendingStore' = out.store
                /\ resp' = [resp EXCEPT ![w] = PostResult(out)]
                /\ gateway' = [gateway EXCEPT ![w] = Some([otp |-> out.otp, outcome |-> sms])]
                /\ IF out.error = ""
                   THEN /\ issued' = [issued EXCEPT ![u] =
                               IF Len(@) < 2 THEN Append(@, out.otp)
                               ELSE <<@[2], out.otp>>]
                        /\ consumed' = [consumed EXCEPT ![u] = None]
                   ELSE UNCHANGED <<issued, consumed>>
  /\ UNCHANGED <<userVars, logVars, now, req>>

\* PATCH arrives: user u confirms a phone with an OTP.
StartPatch(w, u, data) ==
  /\ pc[w] = "idle"
  /\ req' = [req EXCEPT ![w] = [op |-> "patch", user |-> u, data |-> data,
                                raced |-> FALSE]]
  /\ pc' = [pc EXCEPT ![w] = "patch"]
  /\ UNCHANGED <<userVars, verifVars, logVars, now, resp>>

\* UserPhoneUpdateView.patch
PatchStep(w) ==
  /\ pc[w] = "patch"
  /\ pc' = [pc EXCEPT ![w] = "done"]
  /\ LET u == req[w].user
         data == req[w].data
     IN IF ~UserPhoneVerificationSerializerValid(data)
        THEN /\ resp' = [resp EXCEPT ![w] = Raise("ValidationError", None)]
             /\ UNCHANGED <<phone, verifVars, req>>
        ELSE LET a == PatchServiceArgs(data)
                 out == verify_code(pendingStore, u, a.otp, a.code, a.number, now)
                 ph == IF out.error = "" THEN out.phone ELSE phone[u]
             IN /\ pendingStore' = out.store
                /\ phone' = [phone EXCEPT ![u] = ph]
                /\ consumed' = [consumed EXCEPT ![u] =
                                  IF out.error = "" THEN Some(a.otp) ELSE @]
                /\ resp' = [resp EXCEPT ![w] =
                              PatchResult(out, UserSerializer(u, ph, birthday[u]))]
                /\ req' = [v \in Workers |->
                             IF /\ v # w /\ pc[v] = "patch" /\ req[v].user = u
                                /\ out.error = ""
                             THEN [req[v] EXCEPT !.raced = TRUE] ELSE req[v]]
                /\ UNCHANGED <<issued, gateway>>
  /\ UNCHANGED <<birthday, profile, firstBirthday, logVars, now>>

\* get_otp is called with settings.SMS_VERIFICATION_CODE_DIGITS = digits.
StartGetOtp(w, digits) ==
  /\ pc[w] = "idle"
  /\ req' = [req EXCEPT ![w] = [op |-> "get_otp", digits |-> digits]]
  /\ pc' = [pc EXCEPT ![w] = "get_otp"]
  /\ UNCHANGED <<userVars, verifVars, logVars, now, resp>>

\* UserPhoneUpdateView.get_otp on its own; rnd is what the random source
\* yields.
GetOtpStep(w, rnd) ==
  /\ pc[w] = "get_otp"
  /\ rnd \in AllDraws(req[w].digits)
  /\ pc' = [pc EXCEPT ![w] = "done"]
  /\ resp' = [resp EXCEPT ![w] = Ok(get_otp(req[w].digits, rnd))]
  /\ UNCHANGED <<userVars, verifVars, logVars, now, req>>

\* ------------------------------------------------ UserBirthdayAPIView
\* UserBirthdaySerializer: 0 stands for a missing or malformed date.
UserBirthdaySerializerValid(data) == data.birthday >= 1
BirthdayInputs == [birthday : 0..MaxBirthday]

BirthdayRegistered_Never(user) == FALSE

\* `if self.request.user.birthday`
BirthdayRegistered(user) == user.birthday # None

\* POST arrives and is authenticated: request.user is loaded.
StartBirthday(w, u, data) ==
  /\ pc[w] = "idle"
  /\ req' = [req EXCEPT ![w] = [op |-> "birthday", user |-> u, data |-> data,
                                request_user |-> [birthday |-> birthday[u]]]]
  /\ pc' = [pc EXCEPT ![w] = "birthday"]
  /\ UNCHANGED <<userVars, verifVars, logVars, now, resp>>

\* UserBirthdayAPIView.post
BirthdayStep(w) ==
  /\ pc[w] = "birthday"
  /\ pc' = [pc EXCEPT ![w] = "done"]
  /\ LET u == req[w].user
         data == req[w].data
     IN IF BirthdayRegistered(req[w].request_user)
        THEN /\ resp' = [resp EXCEPT ![w] = Raise("BirthdayAlreadyRegistered", None)]
             /\ UNCHANGED <<birthday, firstBirthday>>
        ELSE IF ~UserBirthdaySerializerValid(data)
        THEN /\ resp' = [resp EXCEPT ![w] = Raise("ValidationError", None)]
             /\ UNCHANGED <<birthday, firstBirthday>>
        ELSE /\ birthday' = [birthday EXCEPT ![u] = Some(data.birthday)]
             /\ firstBirthday' = [firstBirthday EXCEPT ![u] =
                                    IF @ = None THEN Some(data.birthday) ELSE @]
             /\ resp' = [resp EXCEPT ![w] =
                           Ok(UserSerializer(u, phone[u], Some(data.birthday)))]
  /\ UNCHANGED <<phone, profile, verifVars, logVars, now, req>>

\* ------------------------- UserNameUpdateView, UserCityUpdateView,
\* ------------------------- UserAvatarUpdateView
\* request.user as loaded when the request is authenticated.
UserRow(u) == [phone |-> phone[u], birthday |-> birthday[u], profile |-> profile[u]]

\* UserNameSerializer / UserCitySerializer / UserAvatarSerializer with
\* partial=True: the field may be absent; when present it must not be blank.
FieldValid(data, field) == field \in DOMAIN data => data[field] # ""

NameInputs == {EmptyDict, [name |-> ""], [name |-> "Ann"]}
CityInputs == {EmptyDict, [city |-> ""], [city |-> "Kazan"]}
AvatarInputs == {EmptyDict, [avatar_url |-> ""], [avatar_url |-> "a.png"]}

\* serializer.save() of a partial update: the submitted field is set on the
\* user object.
SerializerSave(user, data, field) ==
  IF field \in DOMAIN data
  THEN [user EXCEPT !.profile = [@ EXCEPT ![field] = Some(data[field])]]
  ELSE user

SetAvatar_DropsPhone(user, validated_data) ==
  [user EXCEPT !.profile = [@ EXCEPT !.avatar_url = Some(validated_data.avatar_url)],
               !.phone = None]

\* user.avatar_url = serializer.validated_data['avatar_url']
SetAvatar(user, validated_data) ==
  [user EXCEPT !.profile = [@ EXCEPT !.avatar_url = Some(validated_data.avatar_url)]]

\* PATCH name or city, or POST avatar, arrives and is authenticated.
StartProfile(w, op, u, data) ==
  /\ pc[w] = "idle"
  /\ req' = [req EXCEPT ![w] = [op |-> op, user |-> u, data |-> data,
                                request_user |-> UserRow(u)]]
  /\ pc' = [pc EXCEPT ![w] = op]
  /\ UNCHANGED <<userVars, verifVars, logVars, now, resp>>

\* user.save(): the row of the user is written from the user object.
SaveUser(w, user) ==
  /\ phone' = [phone EXCEPT ![req[w].user] = user.phone]
  /\ birthday' = [birthday EXCEPT ![req[w].user] = user.birthday]
  /\ profile' = [profile EXCEPT ![req[w].user] = user.profile]
  /\ resp' = [resp EXCEPT ![w] =
                Ok(UserSerializer(req[w].user, user.phone, user.birthday))]

\* UserNameUpdateView.patch
NameStep(w) ==
  /\ pc[w] = "name"
  /\ pc' = [pc EXCEPT ![w] = "done"]
  /\ IF ~FieldValid(req[w].data, "name")
     THEN /\ resp' = [resp EXCEPT ![w] = Raise("ValidationError", None)]
          /\ UNCHANGED <<phone, birthday, profile>>
     ELSE SaveUser(w, SerializerSave(req[w].request_user, req[w].data, "name"))
  /\ UNCHANGED <<firstBirthday, verifVars, logVars, now, req>>

\* UserCityUpdateView.patch
CityStep(w) ==
  /\ pc[w] = "city"
  /\ pc' = [pc EXCEPT ![w] = "done"]
  /\ IF ~FieldValid(req[w].data, "city")
     THEN /\ resp' = [resp EXCEPT ![w] = Raise("ValidationError", None)]
          /\ UNCHANGED <<phone, birthday, profile>>
     ELSE SaveUser(w, SerializerSave(req[w].request_user, req[w].data, "city"))
  /\ UNCHANGED <<firstBirthday, verifVars, logVars, now, req>>

\* UserAvatarUpdateView.post; validated_data['avatar_url'] raises KeyError
\* when the partial update carries no avatar_url.
AvatarStep(w) ==
  /\ pc[w] = "avatar"
  /\ pc' = [pc EXCEPT ![w] = "done"]
  /\ IF ~FieldValid(req[w].data, "avatar_url")
     THEN /\ resp' = [resp EXCEPT ![w] = Raise("ValidationError", None)]
          /\ UNCHANGED <<phone, birthday, profile>>
     ELSE IF "avatar_url" \notin DOMAIN req[w].data
     THEN /\ resp' = [resp EXCEPT ![w] = ServerError("KeyError")]
          /\ UNCHANGED <<phone, birthday, profile>>
     ELSE SaveUser(w, SetAvatar(req[w].request_user, req[w].data))
  /\ UNCHANGED <<firstBirthday, verifVars, logVars, now, req>>

\* ------------------------------------------------ TelegramWebhookAPIView
Texts == {"hi", "yo"}
Dates == {DateStep * k : k \in 0..MaxDate}

ChatDicts == {EmptyDict} \cup {[id |-> c] : c \in Chats}
MessageDicts ==
  {chat @@ text @@ date :
     chat \in {EmptyDict} \cup {[chat |-> cd] : cd \in ChatDicts},
     text \in {EmptyDict} \cup {[text |-> t] : t \in Texts},
     date \in {EmptyDict} \cup {[date |-> d] : d \in Dates}}
EditedMessage == [chat |-> [id |-> 1], text |-> "hi", date |-> DateStep]
Updates ==
  {[update_id |-> 1], [update_id |-> 1, edited_message |-> EditedMessage]}
  \cup {[update_id |-> 1, message |-> m] : m \in MessageDicts}

IncomingMessage_OrEdited(update) ==
  IF "message" \in DOMAIN update THEN Some(update.message)
  ELSE IF "edited_message" \in DOMAIN update THEN Some(update.edited_message)
  ELSE None

\* `if 'message' in update: message = update['message']`
IncomingMessage(update) ==
  IF "message" \in DOMAIN update THEN Some(update.message) ELSE None

GetText_Required(message) ==
  IF "text" \in DOMAIN message THEN message.text ELSE "None"

\* message.get('text', '')
GetText(message) == IF "text" \in DOMAIN message THEN message.text ELSE ""

\* datetime.fromtimestamp(ts, tz=timezone.utc)
FromTimestamp(ts) ==
  [day |-> ts \div 86400, hour |-> (ts % 86400) \div 3600,
   minute |-> (ts % 3600) \div 60, second |-> ts % 60]

\* The subscripts of lines 291 and 293 raise KeyError on a missing key.
MessageKeyError(message) ==
  \/ "chat" \notin DOMAIN message
  \/ "id" \notin DOMAIN message.chat
  \/ "date" \notin DOMAIN message

update_or_create_AnyChat(log, chat_id, text, sent_at) ==
  IF log # {}
  THEN {[r EXCEPT !.text = text, !.sent_at = sent_at] : r \in log}
  ELSE log \cup {[chat_id |-> chat_id, text |-> text, sent_at |-> sent_at]}

update_or_create_TextOnly(log, chat_id, text, sent_at) ==
  IF \E r \in log : r.chat_id = chat_id
  THEN {IF r.chat_id = chat_id THEN [r EXCEPT !.text = text] ELSE r : r \in log}
  ELSE log \cup {[chat_id |-> chat_id, text |-> text, sent_at |-> sent_at]}

update_or_create_AlwaysCreate(log, chat_id, text, sent_at) ==
  log \cup {[chat_id |-> chat_id, text |-> text, sent_at |-> sent_at]}

\* MessageLog.objects.update_or_create(chat_id=..., defaults={...})
update_or_create(log, chat_id, text, sent_at) ==
  IF \E r \in log : r.chat_id = chat_id
  THEN {IF r.chat_id = chat_id
        THEN [r EXCEPT !.text = text, !.sent_at = sent_at] ELSE r : r \in log}
  ELSE log \cup {[chat_id |-> chat_id, text |-> text, sent_at |-> sent_at]}

DbOutcomes == {"ok", "error"}

\* The bot platform posts an update.
StartWebhook(w, update) ==
  /\ pc[w] = "idle"
  /\ req' = [req EXCEPT ![w] = [op |-> "webhook", data |-> update,
                                raced |-> FALSE]]
  /\ pc' = [pc EXCEPT ![w] = "webhook"]
  /\ UNCHANGED <<userVars, verifVars, logVars, now, resp>>

\* The update carries a message of chat c.
IsForChat(update, c) ==
  /\ "message" \in DOMAIN update
  /\ "chat" \in DOMAIN update.message
  /\ "id" \in DOMAIN update.message.chat
  /\ update.message.chat.id = c

\* TelegramWebhookAPIView.post; db is what the database does with the write.
\* A call in flight for the same chat is marked as raced (history).
WebhookStep(w, db) ==
  /\ pc[w] = "webhook"
  /\ pc' = [pc EXCEPT ![w] = "done"]
  /\ LET incoming == IncomingMessage(req[w].data)
     IN IF incoming = None
        THEN /\ resp' = [resp EXCEPT ![w] = Ok([status |-> "ok"])]
             /\ UNCHANGED <<logVars, req>>
        ELSE IF MessageKeyError(incoming[1])
        THEN /\ resp' = [resp EXCEPT ![w] = ServerError("KeyError")]
             /\ UNCHANGED <<logVars, req>>
        ELSE IF db # "ok"
        THEN /\ resp' = [resp EXCEPT ![w] = ServerError("DatabaseError")]
             /\ UNCHANGED <<logVars, req>>
        ELSE LET message == incoming[1]
                 chat_id == message.chat.id
                 text == GetText(message)
                 timestamp == FromTimestamp(message.date)
             IN /\ messageLog' = update_or_create(messageLog, chat_id, text, timestamp)
                /\ lastEvent' = [lastEvent EXCEPT ![chat_id] = Some(message)]
                /\ overwrote' = [overwrote EXCEPT ![chat_id] =
                     \E r \in messageLog : /\ r.chat_id = chat_id
                                           /\ r.text # text
                                           /\ r.sent_at # timestamp]
                /\ resp' = [resp EXCEPT ![w] = Ok([status |-> "ok"])]
                /\ req' = [v \in Workers |->
                             IF /\ v # w /\ pc[v] = "webhook"
                                /\ IsForChat(req[v].data, chat_id)
                             THEN [req[v] EXCEPT !.raced = TRUE] ELSE req[v]]
  /\ UNCHANGED <<userVars, verifVars, now>>

\* ------------------------------------------------ LastMessageAPIView
Digits10 == <<"0", "1", "2", "3", "4", "5", "6", "7", "8", "9">>
DigitValue(ch) == CHOOSE n \in 0..9 : Digits10[n + 1] = ch

RECURSIVE DecimalString(_)
DecimalString(n) ==
  IF n < 10 THEN <<Digits10[n + 1]>>
  ELSE Append(DecimalString(n \div 10), Digits10[(n % 10) + 1])

RECURSIVE ParseInt(_)
ParseInt(s) ==
  IF s = << >> THEN 0
  ELSE 10 * ParseInt(SubSeq(s, 1, Len(s) - 1)) + DigitValue(s[Len(s)])

\* User.telegram_id is a character column holding the Telegram chat id of
\* the user; user u talks to the bot in chat u.
telegram_id(u) == DecimalString(u)

\* What the external avatar lookup does: it resolves a URL, finds that the
\* user has no photo, or fails.
AvatarOutcomes ==
  {[url |-> Some("photo.jpg"), error |-> None],
   [url |-> None, error |-> None],
   [url |-> None, error |-> Some("avatar lookup failed")]}

\* WebhookLastMessageService(telegram_id).get_last_message(): the row of the
\* chat, if any, and the error of the lookup.  A chat without a row is not
\* an error; a failed avatar resolution is.
get_last_message(log, tid, avatar) ==
  LET rows == {r \in log : r.chat_id = ParseInt(tid)}
  IN [info |-> IF rows = {} THEN None
               ELSE LET r == CHOOSE x \in rows : TRUE
                    IN Some([message |-> r.text, time |-> r.sent_at]),
      error |-> avatar.error]

\* WebhookLastMessageService(telegram_id).get_avatar_url()
get_avatar_url(avatar) == avatar.url

StrftimeHM_TwelveHour(t) ==
  LET h == IF t.hour % 12 = 0 THEN 12 ELSE t.hour % 12
  IN <<Digits10[(h \div 10) + 1], Digits10[(h % 10) + 1], ":",
       Digits10[(t.minute \div 10) + 1], Digits10[(t.minute % 10) + 1]>>

\* last_message_info['time'].strftime('%H:%M')
StrftimeHM(t) ==
  <<Digits10[(t.hour \div 10) + 1], Digits10[(t.hour % 10) + 1], ":",
    Digits10[(t.minute \div 10) + 1], Digits10[(t.minute % 10) + 1]>>

\* Response({'error': error}, status=400)
BadRequest(data) == [status |-> 400, error |-> "", detail |-> None, data |-> data]

LastMessageResponse_ErrorOnlyWithoutRow(last_message_info, avatar_url, error) ==
  IF error # None /\ last_message_info = None
  THEN BadRequest([error |-> error[1]])
  ELSE Ok([avatar_url |-> avatar_url,
           message |-> IF last_message_info # None
                       THEN Some(last_message_info[1].message) ELSE None,
           time |-> IF last_message_info # None
                    THEN Some(StrftimeHM(last_message_info[1].time)) ELSE None])

LastMessageResponse_RowRequired(last_message_info, avatar_url, error) ==
  IF error # None
  THEN BadRequest([error |-> error[1]])
  ELSE IF last_message_info = None
  THEN BadRequest([error |-> "no messages"])
  ELSE Ok([avatar_url |-> avatar_url,
           message |-> Some(last_message_info[1].message),
           time |-> Some(StrftimeHM(last_message_info[1].time))])

\* Lines 273-280: `if error` answers 400; otherwise the avatar, the message
\* and the time, the last two null when there is no row.
LastMessageResponse(last_message_info, avatar_url, error) ==
  IF error # None
  THEN BadRequest([error |-> error[1]])
  ELSE Ok([avatar_url |-> avatar_url,
           message |-> IF last_message_info # None
                       THEN Some(last_message_info[1].message) ELSE None,
           time |-> IF last_message_info # None
                    THEN Some(StrftimeHM(last_message_info[1].time)) ELSE None])

\* GET arrives: user u asks for the last message of the user's chat.
StartLastMessage(w, u) ==
  /\ pc[w] = "idle"
  /\ req' = [req EXCEPT ![w] = [op |-> "get", user |-> u,
                                telegram_id |-> telegram_id(u)]]
  /\ pc' = [pc EXCEPT ![w] = "get"]
  /\ UNCHANGED <<userVars, verifVars, logVars, now, resp>>

\* LastMessageAPIView.get; avatar is what the external avatar lookup does,
\* kept with the request as history.
LastMessageStep(w, avatar) ==
  /\ pc[w] = "get"
  /\ pc' = [pc EXCEPT ![w] = "done"]
  /\ LET out == get_last_message(messageLog, req[w].telegram_id, avatar)
         avatar_url == get_avatar_url(avatar)
     IN resp' = [resp EXCEPT ![w] =
                   LastMessageResponse(out.info, avatar_url, out.error)]
  /\ req' = [req EXCEPT ![w] =
               [op |-> "get", user |-> req[w].user,
                telegram_id |-> req[w].telegram_id, avatar |-> avatar]]
  /\ UNCHANGED <<userVars, verifVars, logVars, now>>

\* The response reaches the client and the worker is free again.
Return(w) ==
  /\ pc[w] = "done"
  /\ pc' = [pc EXCEPT ![w] = "idle"]
  /\ req' = [req EXCEPT ![w] = NoReq]
  /\ resp' = [resp EXCEPT ![w] = NoResp]
  /\ gateway' = [gateway EXCEPT ![w] = None]
  /\ UNCHANGED <<userVars, pendingStore, issued, consumed, logVars, now>>

\* Time passes.
Tick ==
  /\ now < MaxTime
  /\ now' = now + 1
  /\ UNCHANGED <<userVars, verifVars, logVars, pc, req, resp>>

\* The phone verification workflow of one user, one request at a time.
VerifyUsers == {1}
SerialWorkers == {1}

VerifyNext ==
  \/ \E w \in SerialWorkers, u \in VerifyUsers, data \in PhoneInputs :
       StartPost(w, u, data)
  \/ \E w \in SerialWorkers, rnd \in RandomDraws, sms \in SmsOutcomes :
       PostStep(w, rnd, sms)
  \/ \E w \in SerialWorkers, u \in VerifyUsers, data \in VerificationInputs :
       StartPatch(w, u, data)
  \/ \E w \in SerialWorkers : PatchStep(w)
  \/ \E w \in SerialWorkers : Return(w)
  \/ Tick

VerifySpec == Init /\ [][VerifyNext]_vars

\* The same workflow with the requests of all workers overlapping; the
\* submitted phones are the well-formed ones.
ValidPhoneInputs == {d \in PhoneInputs : UserPhoneSerializerValid(d)}
ValidVerificationInputs == [otp : OtpSpace, phone : ValidPhoneInputs]

ConcurrentVerifyNext ==
  \/ \E w \in Workers, u \in VerifyUsers, data \in ValidPhoneInputs :
       StartPost(w, u, data)
  \/ \E w \in Workers, rnd \in RandomDraws, sms \in SmsOutcomes :
       PostStep(w, rnd, sms)
  \/ \E w \in Workers, u \in VerifyUsers, data \in ValidVerificationInputs :
       StartPatch(w, u, data)
  \/ \E w \in Workers : PatchStep(w)
  \/ \E w \in Workers : Return(w)
  \/ Tick

ConcurrentVerifySpec == Init /\ [][ConcurrentVerifyNext]_vars

\* The OTP generator under every configured length and random outcome.
OtpLengths == 1..MaxDigits

OtpNext ==
  \/ \E w \in SerialWorkers, digits \in OtpLengths : StartGetOtp(w, digits)
  \/ \E w \in SerialWorkers, digits \in OtpLengths :
       \E rnd \in AllDraws(digits) : GetOtpStep(w, rnd)
  \/ \E w \in SerialWorkers : Return(w)

OtpSpec == Init /\ [][OtpNext]_vars

\* The birthday endpoint, one request at a time.
BirthdayNext ==
  \/ \E w \in SerialWorkers, u \in Users, data \in BirthdayInputs :
       StartBirthday(w, u, data)
  \/ \E w \in SerialWorkers : BirthdayStep(w)
  \/ \E w \in SerialWorkers : Return(w)

BirthdaySpec == Init /\ [][BirthdayNext]_vars

\* The birthday endpoint with the requests of all workers overlapping.
ConcurrentBirthdayNext ==
  \/ \E w \in Workers, u \in Users, data \in BirthdayInputs :
       StartBirthday(w, u, data)
  \/ \E w \in Workers : BirthdayStep(w)
  \/ \E w \in Workers : Return(w)

ConcurrentBirthdaySpec == Init /\ [][ConcurrentBirthdayNext]_vars

\* The webhook endpoint, one request at a time.
WebhookNext ==
  \/ \E w \in SerialWorkers, update \in Updates : StartWebhook(w, update)
  \/ \E w \in SerialWorkers, db \in DbOutcomes : WebhookStep(w, db)
  \/ \E w \in SerialWorkers : Return(w)

WebhookSpec == Init /\ [][WebhookNext]_vars

\* The webhook and the last-message lookup, one request at a time.
LookupNext ==
  \/ \E w \in SerialWorkers, update \in Updates : StartWebhook(w, update)
  \/ \E w \in SerialWorkers, db \in DbOutcomes : WebhookStep(w, db)
  \/ \E w \in SerialWorkers, u \in Users : StartLastMessage(w, u)
  \/ \E w \in SerialWorkers, avatar \in AvatarOutcomes : LastMessageStep(w, avatar)
  \/ \E w \in SerialWorkers : Return(w)

LookupSpec == Init /\ [][LookupNext]_vars

\* Webhook calls of all workers overlapping; the updates carry well-formed
\* messages.
WellFormedUpdates ==
  {update \in Updates :
     "message" \in DOMAIN update /\ ~MessageKeyError(update.message)}

ConcurrentWebhookNext ==
  \/ \E w \in Workers, update \in WellFormedUpdates : StartWebhook(w, update)
  \/ \E w \in Workers, db \in DbOutcomes : WebhookStep(w, db)
  \/ \E w \in Workers : Return(w)

ConcurrentWebhookSpec == Init /\ [][ConcurrentWebhookNext]_vars

\* Every endpoint, one request at a time.  Every user runs the phone
\* verification, user 1 uses the other endpoints too.  The submitted phones
\* have code 1, the random source yields its first outcome, and the webhook
\* updates are text messages of one date.
ProfileUsers == {1}
CodeOnePhoneInputs == {d \in PhoneInputs : d.code = 1 /\ d.number >= 1}
FirstDraw == [i \in 1..SMS_VERIFICATION_CODE_DIGITS |-> 1]
FirstOtp == get_otp(SMS_VERIFICATION_CODE_DIGITS, FirstDraw)
TextUpdates ==
  {[update_id |-> 1]} \cup
  {[update_id |-> 1,
    message |-> [chat |-> [id |-> c], text |-> "hi", date |-> DateStep]] :
     c \in Chats}

AllViewsNext ==
  \/ \E w \in SerialWorkers, u \in Users, data \in CodeOnePhoneInputs :
       StartPost(w, u, data)
  \/ \E w \in SerialWorkers, sms \in SmsOutcomes : PostStep(w, FirstDraw, sms)
  \/ \E w \in SerialWorkers, u \in Users,
        data \in [otp : {FirstOtp}, phone : CodeOnePhoneInputs] :
       StartPatch(w, u, data)
  \/ \E w \in SerialWorkers : PatchStep(w)
  \/ \E w \in SerialWorkers, u \in ProfileUsers, data \in BirthdayInputs :
       StartBirthday(w, u, data)
  \/ \E w \in SerialWorkers : BirthdayStep(w)
  \/ \E w \in SerialWorkers, u \in ProfileUsers, data \in NameInputs :
       StartProfile(w, "name", u, data)
  \/ \E w \in SerialWorkers : NameStep(w)
  \/ \E w \in SerialWorkers, u \in ProfileUsers, data \in CityInputs :
       StartProfile(w, "city", u, data)
  \/ \E w \in SerialWorkers : CityStep(w)
  \/ \E w \in SerialWorkers, u \in ProfileUsers, data \in AvatarInputs :
       StartProfile(w, "avatar", u, data)
  \/ \E w \in SerialWorkers : AvatarStep(w)
  \/ \E w \in SerialWorkers, update \in TextUpdates : StartWebhook(w, update)
  \/ \E w \in SerialWorkers, db \in DbOutcomes : WebhookStep(w, db)
  \/ \E w \in SerialWorkers, u \in ProfileUsers : StartLastMessage(w, u)
  \/ \E w \in SerialWorkers, avatar \in AvatarOutcomes : LastMessageStep(w, avatar)
  \/ \E w \in SerialWorkers : Return(w)

AllViewsSpec == Init /\ [][AllViewsNext]_vars

\* Phone verification of every user and webhook calls of every chat, the
\* requests of all workers overlapping.  User u asks for the phone whose
\* number is u; any user may try to confirm any of these phones.  The
\* message of chat c is dated c steps.
OwnPhone(u) == [code |-> 1, number |-> u]
ChatUpdates ==
  {[update_id |-> 1]} \cup
  {[update_id |-> 1,
    message |-> [chat |-> [id |-> c], text |-> "hi", date |-> DateStep * c]] :
     c \in Chats}
SharedOtpInputs == [otp : {FirstOtp}, phone : {OwnPhone(u) : u \in Users}]

IsolationNext ==
  \/ \E w \in Workers, u \in Users : StartPost(w, u, OwnPhone(u))
  \/ \E w \in Workers, sms \in SmsOutcomes : PostStep(w, FirstDraw, sms)
  \/ \E w \in Workers, u \in Users, data \in SharedOtpInputs :
       StartPatch(w, u, data)
  \/ \E w \in Workers : PatchStep(w)
  \/ \E w \in Workers, update \in ChatUpdates : StartWebhook(w, update)
  \/ \E w \in Workers, db \in DbOutcomes : WebhookStep(w, db)
  \/ \E w \in Workers : Return(w)

IsolationSpec == Init /\ [][IsolationNext]_vars

\* ------------------------------------------------ phone verification claims
PatchDone(w) == pc[w] = "patch" /\ pc'[w] = "done"
PostDone(w) == pc[w] = "post" /\ pc'[w] = "done"
SubmittedPhone(d) == [code |-> d.phone.code, number |-> d.phone.number]
Matches(r, d) ==
  r.otp = d.otp /\ r.code = d.phone.code /\ r.number = d.phone.number
VerifyErrors == {"NoPendingVerification", "CodeMismatch"}

\* C1: OTP codes are single-use.  A verify_code call that submits the stored
\* OTP and the phone of the user's live pending verification succeeds, sets
\* the user's phone to that phone and clears the pending verification; a
\* verify_code call submitting an OTP the user already consumed, with no
\* delivered request since, fails and leaves the phone as it was.
C1_OtpSingleUse ==
  [][\A w \in Workers : PatchDone(w) =>
       LET u == req[w].user
           d == req[w].data
       IN /\ (\E r \in LivePending(pendingStore, u, now) : Matches(r, d)) =>
               /\ resp'[w].status = 200
               /\ resp'[w].data.phone = Some(SubmittedPhone(d))
               /\ phone'[u] = Some(SubmittedPhone(d))
               /\ PendingOf(pendingStore', u) = {}
          /\ consumed[u] = Some(d.otp) =>
               /\ resp'[w].status # 200
               /\ resp'[w].error \in VerifyErrors \cup {"ValidationError"}
               /\ phone'[u] = phone[u]]_vars

\* The same request replayed: the phone was set by the first call, the
\* second call with the consumed OTP ended in NoPendingVerification.
C1_Witness ==
  \E w \in Workers :
    /\ pc[w] = "done" /\ req[w].op = "patch"
    /\ consumed[req[w].user] = Some(req[w].data.otp)
    /\ phone[req[w].user] = Some(SubmittedPhone(req[w].data))
    /\ resp[w].error = "NoPendingVerification"

\* C2: a new request_verification supersedes the user's previous one.  Each
\* user has at most one pending verification; a verify_code call succeeds
\* only with the OTP of the user's latest delivered request; after two
\* delivered requests a verify_code with the first OTP, when it differs
\* from the second, fails with NoPendingVerification or CodeMismatch.
C2_AtMostOnePending ==
  \A u \in Users : Cardinality(PendingOf(pendingStore, u)) <= 1

C2_RequestSupersedes ==
  /\ []C2_AtMostOnePending
  /\ [][\A w \in Workers : PatchDone(w) =>
          LET u == req[w].user
              d == req[w].data
          IN /\ resp'[w].status = 200 =>
                  /\ issued[u] # << >>
                  /\ d.otp = issued[u][Len(issued[u])]
             /\ ( /\ UserPhoneVerificationSerializerValid(d)
                  /\ Len(issued[u]) = 2
                  /\ d.otp = issued[u][1]
                  /\ d.otp # issued[u][2] ) =>
                  /\ resp'[w].error \in VerifyErrors
                  /\ phone'[u] = phone[u]]_vars

\* The second request's verification is still pending and a call with the
\* first OTP and the pending phone was turned down with CodeMismatch.
C2_Witness ==
  \E w \in Workers :
    /\ pc[w] = "done" /\ req[w].op = "patch"
    /\ Len(issued[req[w].user]) = 2
    /\ req[w].data.otp = issued[req[w].user][1]
    /\ issued[req[w].user][1] # issued[req[w].user][2]
    /\ \E r \in LivePending(pendingStore, req[w].user, now) :
         /\ r.otp = issued[req[w].user][2]
         /\ r.code = req[w].data.phone.code
         /\ r.number = req[w].data.phone.number
    /\ resp[w].error = "CodeMismatch"

\* C3: with a live pending verification, verify_code fails with CodeMismatch
\* when the submitted OTP differs from the stored one, and also when the OTP
\* is the stored one but the submitted code or number is not the candidate
\* phone of the request; the user's phone and the pending verification stay.
C3_CodeMismatch ==
  [][\A w \in Workers : PatchDone(w) =>
       LET u == req[w].user
           d == req[w].data
       IN \A r \in LivePending(pendingStore, u, now) :
            ( /\ UserPhoneVerificationSerializerValid(d)
              /\ \/ d.otp # r.otp
                 \/ d.phone.code # r.code
                 \/ d.phone.number # r.number ) =>
              /\ resp'[w].status # 200
              /\ resp'[w].error = "CodeMismatch"
              /\ phone'[u] = phone[u]
              /\ pendingStore' = pendingStore]_vars

\* The right OTP against another number: refused, and the phone is not the
\* submitted one.
C3_Witness ==
  \E w \in Workers :
    /\ pc[w] = "done" /\ req[w].op = "patch"
    /\ resp[w].error = "CodeMismatch"
    /\ \E r \in LivePending(pendingStore, req[w].user, now) :
         /\ r.otp = req[w].data.otp
         /\ r.code = req[w].data.phone.code
         /\ r.number # req[w].data.phone.number
    /\ phone[req[w].user] # Some(SubmittedPhone(req[w].data))

\* C4: when the SMS gateway fails to deliver, request_verification ends in
\* SmsDeliveryError with the cause in its detail and the pending store is
\* what it was before; every pending verification in the store holds the
\* OTP of the user's latest delivered request.
C4_OnlyDeliveredPending ==
  \A r \in pendingStore :
    issued[r.user] # << >> /\ r.otp = issued[r.user][Len(issued[r.user])]

C4_DeliveryFailure ==
  /\ []C4_OnlyDeliveredPending
  /\ [][\A w \in Workers :
          (PostDone(w) /\ gateway'[w] # None /\ gateway'[w][1].outcome # "sent") =>
             /\ resp'[w].status # 200
             /\ resp'[w].error = "SmsDeliveryError"
             /\ resp'[w].detail =
                  Some(<<"Failed to send SMS: ", gateway'[w][1].outcome>>)
             /\ pendingStore' = pendingStore
             /\ phone' = phone]_vars

\* A failed delivery whose OTP is in no pending verification of the user.
C4_Witness ==
  \E w \in Workers :
    /\ pc[w] = "done" /\ req[w].op = "post"
    /\ gateway[w] # None /\ gateway[w][1].outcome \in SmsCauses
    /\ resp[w].error = "SmsDeliveryError"
    /\ \A r \in PendingOf(pendingStore, req[w].user) : r.otp # gateway[w][1].otp

\* C5: verify_code fails with NoPendingVerification and leaves the phone when
\* the user has no live pending verification: none was ever requested, it was
\* consumed, or its validity window has elapsed (even with the right OTP and
\* phone).
C5_NoPendingVerification ==
  [][\A w \in Workers : PatchDone(w) =>
       LET u == req[w].user
           d == req[w].data
       IN ( /\ UserPhoneVerificationSerializerValid(d)
            /\ \/ PendingOf(pendingStore, u) = {}
               \/ \A r \in PendingOf(pendingStore, u) :
                    now - r.issued >= VERIFICATION_TTL ) =>
            /\ resp'[w].status # 200
            /\ resp'[w].error = "NoPendingVerification"
            /\ phone'[u] = phone[u]]_vars

\* The stored OTP and phone submitted after the window: NoPendingVerification.
C5_Witness ==
  \E w \in Workers :
    /\ pc[w] = "done" /\ req[w].op = "patch"
    /\ resp[w].error = "NoPendingVerification"
    /\ \E r \in PendingOf(pendingStore, req[w].user) :
         /\ Matches(r, req[w].data)
         /\ now - r.issued >= VERIFICATION_TTL
    /\ phone[req[w].user] # Some(SubmittedPhone(req[w].data))

BirthdayDone(w) == pc[w] = "birthday" /\ pc'[w] = "done"

\* C7: the birthday is write-once.  A well-formed POST made while the
\* birthday is unset succeeds and stores it; every POST made once it is set
\* fails with BirthdayAlreadyRegistered and leaves it; the stored birthday is
\* the first value ever stored.
C7_BirthdayWriteOnce ==
  /\ [](\A u \in Users : birthday[u] = firstBirthday[u])
  /\ [][\A w \in Workers : BirthdayDone(w) =>
          LET u == req[w].user
              d == req[w].data
          IN /\ (birthday[u] = None /\ UserBirthdaySerializerValid(d)) =>
                  /\ resp'[w].status = 200
                  /\ birthday'[u] = Some(d.birthday)
             /\ birthday[u] # None =>
                  /\ resp'[w].error = "BirthdayAlreadyRegistered"
                  /\ birthday'[u] = birthday[u]]_vars

\* A second POST with another date was refused and the first date stands.
C7_Witness ==
  \E w \in Workers :
    /\ pc[w] = "done" /\ req[w].op = "birthday"
    /\ resp[w].error = "BirthdayAlreadyRegistered"
    /\ UserBirthdaySerializerValid(req[w].data)
    /\ birthday[req[w].user] # None
    /\ birthday[req[w].user] # Some(req[w].data.birthday)
    /\ birthday[req[w].user] = firstBirthday[req[w].user]

\* ---------------------------------------------------------- webhook claims
WebhookDone(w) == pc[w] = "webhook" /\ pc'[w] = "done"
RowsOf(c) == {r \in messageLog : r.chat_id = c}
IsUtcOf(t, ts) ==
  /\ t.day * 86400 + t.hour * 3600 + t.minute * 60 + t.second = ts
  /\ t.hour \in 0..23 /\ t.minute \in 0..59 /\ t.second \in 0..59

\* C8: MessageLog holds at most one row per chat identifier; the row of chat
\* c exists exactly when a message event for c was processed, and holds the
\* text and the UTC instant of the most recently processed one.
C8_OneRowPerChat ==
  /\ \A r \in messageLog : r.chat_id \in Chats
  /\ \A c \in Chats :
       /\ Cardinality(RowsOf(c)) <= 1
       /\ lastEvent[c] = None => RowsOf(c) = {}
       /\ lastEvent[c] # None =>
            \E r \in RowsOf(c) :
              /\ "text" \in DOMAIN lastEvent[c][1] => r.text = lastEvent[c][1].text
              /\ IsUtcOf(r.sent_at, lastEvent[c][1].date)

\* A follow-up event replaced the text and the timestamp of a chat's row.
C8_Witness ==
  \E w \in Workers :
    /\ pc[w] = "done" /\ req[w].op = "webhook" /\ resp[w].status = 200
    /\ "message" \in DOMAIN req[w].data
    /\ "text" \in DOMAIN req[w].data.message
    /\ overwrote[req[w].data.message.chat.id]
    /\ lastEvent[req[w].data.message.chat.id] = Some(req[w].data.message)
    /\ RowsOf(req[w].data.message.chat.id) =
         {[chat_id |-> req[w].data.message.chat.id,
           text |-> req[w].data.message.text,
           sent_at |-> FromTimestamp(req[w].data.message.date)]}

\* C9: every webhook call is answered 200 {status: ok}, whatever the payload
\* and whatever the MessageLog write does.
C9_WebhookAlwaysAcknowledges ==
  \A w \in Workers :
    (pc[w] = "done" /\ req[w].op = "webhook") =>
      resp[w].status = 200 /\ resp[w].data = [status |-> "ok"]

\* C10: a webhook call whose payload has no message key is answered
\* 200 {status: ok} and leaves the MessageLog as it was.
C10_NoMessageNoWrite ==
  [][\A w \in Workers :
       (WebhookDone(w) /\ "message" \notin DOMAIN req[w].data) =>
          /\ resp'[w].status = 200
          /\ resp'[w].data = [status |-> "ok"]
          /\ messageLog' = messageLog]_vars

\* An update carrying only an edited message was acknowledged while the
\* log held rows.
C10_Witness ==
  \E w \in Workers :
    /\ pc[w] = "done" /\ req[w].op = "webhook"
    /\ "message" \notin DOMAIN req[w].data
    /\ "edited_message" \in DOMAIN req[w].data
    /\ resp[w].status = 200
    /\ messageLog # {}
    /\ \A r \in messageLog :
         r.chat_id # req[w].data.edited_message.chat.id

\* C13: two concurrent webhook calls for the same chat resolve to
\* last-write-wins.  Every committed upsert leaves exactly one row for its
\* chat, holding the text and the timestamp of that one event, and leaves
\* the rows of the other chats alone; so the row is at all times the event
\* whose upsert committed last, never a duplicate and never the text of one
\* event with the timestamp of another.
C13_LastWriteWins ==
  [][\A w \in Workers :
       (WebhookDone(w) /\ resp'[w].status = 200) =>
         LET m == req[w].data.message
             c == m.chat.id
         IN /\ Cardinality(RowsOf(c)') = 1
            /\ \A r \in RowsOf(c)' :
                 /\ r.text = (IF "text" \in DOMAIN m THEN m.text ELSE "")
                 /\ IsUtcOf(r.sent_at, m.date)
            /\ lastEvent'[c] = Some(m)
            /\ \A d \in Chats \ {c} : RowsOf(d)' = RowsOf(d)]_vars

\* Two calls for one chat with different texts and dates were in flight
\* together; the one that committed second owns the row.
C13_Witness ==
  \E w, v \in Workers :
    /\ w # v
    /\ pc[w] = "done" /\ req[w].op = "webhook" /\ resp[w].status = 200
    /\ pc[v] = "done" /\ req[v].op = "webhook" /\ resp[v].status = 200
    /\ req[w].raced
    /\ req[v].data.message.chat.id = req[w].data.message.chat.id
    /\ GetText(req[v].data.message) # GetText(req[w].data.message)
    /\ req[v].data.message.date # req[w].data.message.date
    /\ RowsOf(req[w].data.message.chat.id) =
         {[chat_id |-> req[w].data.message.chat.id,
           text |-> GetText(req[w].data.message),
           sent_at |-> FromTimestamp(req[w].data.message.date)]}

\* ------------------------------------------------ last-message lookup claims
LastMessageDone(w) == pc[w] = "get" /\ pc'[w] = "done"
ChatOfUser(u) == u

C12_NoRowIsNotAnError ==
  [][\A w \in Workers : LastMessageDone(w) =>
       (/\ RowsOf(ChatOfUser(req[w].user)) = {}
        /\ req'[w].avatar.error = None
        => /\ resp'[w].status = 200
           /\ resp'[w].data.avatar_url = req'[w].avatar.url
           /\ resp'[w].data.message = None
           /\ resp'[w].data.time = None)]_vars

\* A user whose chat has no row looked up the last message while the other
\* chat has one; the avatar resolved and message and time are null.
C12_Witness ==
  \E w \in Workers :
    /\ pc[w] = "done" /\ req[w].op = "get"
    /\ RowsOf(ChatOfUser(req[w].user)) = {}
    /\ messageLog # {}
    /\ req[w].avatar.url # None
    /\ resp[w].status = 200
    /\ resp[w].data.avatar_url = req[w].avatar.url
    /\ resp[w].data.message = None
    /\ resp[w].data.time = None

\* ------------------------------------------------------ OTP generator claims
\* C15: the OTP generator returns, for every configured length L >= 1 and
\* every outcome of the random source, a string of exactly L characters,
\* each one of the digits 1..9 and never 0, and changes no state.
C15_OtpShape ==
  [][\A w \in Workers :
       (pc[w] = "get_otp" /\ pc'[w] = "done") =>
         LET L == req[w].digits
             otp == resp'[w].data
         IN /\ resp'[w].status = 200
            /\ Len(otp) = L
            /\ \A i \in 1..L :
                 /\ otp[i] \in {"1", "2", "3", "4", "5", "6", "7", "8", "9"}
                 /\ otp[i] # "0"
            /\ UNCHANGED <<userVars, verifVars, logVars, now>>]_vars

\* A code of more than one character was generated, from the two ends of
\* the alphabet.
C15_Witness ==
  \E w \in Workers :
    /\ pc[w] = "done" /\ req[w].op = "get_otp"
    /\ req[w].digits >= 2
    /\ Len(resp[w].data) = req[w].digits
    /\ resp[w].data[1] = "9"
    /\ resp[w].data[2] = "1"

\* -------------------------------------------------- text-less event claims
\* C18: a message event with no text field is still recorded.  The webhook
\* upserts the chat's row with text "" and the event's timestamp, so a
\* text-less event replaces a previously stored text with the empty string.
C18_TextlessEventRecorded ==
  [][\A w \in Workers :
       (/\ WebhookDone(w)
        /\ resp'[w].status = 200
        /\ "message" \in DOMAIN req[w].data
        /\ "text" \notin DOMAIN req[w].data.message) =>
         LET m == req[w].data.message
         IN /\ \E r \in messageLog' :
                 /\ RowsOf(m.chat.id)' = {r}
                 /\ r.text = ""
                 /\ IsUtcOf(r.sent_at, m.date)
            /\ \A r \in messageLog' : r.chat_id = m.chat.id => r.text \notin Texts]_vars

\* A text-less event replaced a row that held a text and another timestamp.
C18_Witness ==
  \E w \in Workers :
    /\ pc[w] = "done" /\ req[w].op = "webhook" /\ resp[w].status = 200
    /\ "message" \in DOMAIN req[w].data
    /\ "text" \notin DOMAIN req[w].data.message
    /\ overwrote[req[w].data.message.chat.id]
    /\ RowsOf(req[w].data.message.chat.id) =
         {[chat_id |-> req[w].data.message.chat.id,
           text |-> "",
           sent_at |-> FromTimestamp(req[w].data.message.date)]}

\* --------------------------------------------- concurrent birthday claims
\* C19: the birthday write-once guard holds under concurrency.  When two
\* valid birthday requests for one user whose birthday is unset overlap, at
\* most one of them succeeds and the stored birthday is never overwritten
\* by the second writer: no step changes a birthday that is set, and no
\* request succeeds for a user whose birthday is set.
C19_BirthdayWriteOnceConcurrent ==
  [][\A w \in Workers : BirthdayDone(w) =>
       LET u == req[w].user
       IN birthday[u] # None =>
            /\ birthday'[u] = birthday[u]
            /\ resp'[w].status # 200]_vars

\* ------------------------------------------------- read-after-write claims
\* s is the zero-padded 24-hour HH:MM rendering of the UTC instant ts.
IsHHMMOf(s, ts) ==
  /\ Len(s) = 5
  /\ s[3] = ":"
  /\ \A i \in {1, 2, 4, 5} : \E n \in 0..9 : Digits10[n + 1] = s[i]
  /\ LET h == 10 * DigitValue(s[1]) + DigitValue(s[2])
         mi == 10 * DigitValue(s[4]) + DigitValue(s[5])
     IN /\ h \in 0..23
        /\ mi \in 0..59
        /\ \E d \in 0..(ts \div 86400) :
             (ts - d * 86400 - h * 3600 - mi * 60) \in 0..59

\* C17: the read path reflects the write path.  After any sequence of
\* webhook events, a last-message lookup by the user whose telegram_id is
\* chat c that ends without a lookup error returns as message the text of
\* the most recently processed message event for c and as time that
\* event's timestamp rendered HH:MM (24-hour, zero-padded, UTC); never an
\* older event's and never another chat's.
C17_ReadReflectsWrite ==
  [][\A w \in Workers :
       (LastMessageDone(w) /\ resp'[w].status = 200) =>
         LET c == ChatOfUser(req[w].user)
         IN (c \in Chats /\ lastEvent[c] # None) =>
              LET m == lastEvent[c][1]
              IN /\ resp'[w].data.message =
                      Some(IF "text" \in DOMAIN m THEN m.text ELSE "")
                 /\ resp'[w].data.time # None
                 /\ IsHHMMOf(resp'[w].data.time[1], m.date)]_vars

\* The chat's row had been replaced by a later event with another text and
\* the other chat holds a different text; the lookup returned the later
\* event, its time of day 01:09.
C17_Witness ==
  \E w \in Workers :
    /\ pc[w] = "done" /\ req[w].op = "get" /\ resp[w].status = 200
    /\ overwrote[ChatOfUser(req[w].user)]
    /\ "text" \in DOMAIN lastEvent[ChatOfUser(req[w].user)][1]
    /\ resp[w].data.message = Some(lastEvent[ChatOfUser(req[w].user)][1].text)
    /\ resp[w].data.time = Some(<<"0", "1", ":", "0", "9">>)
    /\ \E r \in messageLog :
         /\ r.chat_id # ChatOfUser(req[w].user)
         /\ Some(r.text) # resp[w].data.message
         /\ r.sent_at # FromTimestamp(lastEvent[ChatOfUser(req[w].user)][1].date)

C16_NoInterference ==
  [][/\ \A w \in Workers :
          (PostDone(w) \/ PatchDone(w)) =>
            \A b \in Users \ {req[w].user} :
              /\ PendingOf(pendingStore', b) = PendingOf(pendingStore, b)
              /\ phone'[b] = phone[b]
     /\ \A w \in Workers :
          (PatchDone(w) /\ resp'[w].status = 200) =>
            \E r \in PendingOf(pendingStore, req[w].user) :
              Matches(r, req[w].data)
     /\ \A w \in Workers, a \in Chats :
          (WebhookDone(w) /\ IsForChat(req[w].data, a)) =>
            \A b \in Chats \ {a} : RowsOf(b)' = RowsOf(b)]_vars

\* User B, with a pending verification of its own, tried to confirm user
\* A's phone with user A's OTP while a request of A with the same data was
\* in flight: B's attempt failed, B has no phone, A's pending verification
\* is intact, and the row of a chat other than B's is in the log.
C16_Witness ==
  \E w, v \in Workers :
    /\ pc[w] = "done" /\ req[w].op = "patch" /\ resp[w].status # 200
    /\ pc[v] = "patch" /\ req[v].user # req[w].user
    /\ req[v].data = req[w].data
    /\ \E r \in PendingOf(pendingStore, req[v].user) : Matches(r, req[w].data)
    /\ phone[req[w].user] = None
    /\ PendingOf(pendingStore, req[w].user) # {}
    /\ \E r \in messageLog : r.chat_id # ChatOfUser(req[w].user)

====
